---- MODULE Spec2Model ----
(***************************************************************************)
(* Model of patches/vector-wrapper/llama-go.cpp: the C ABI wrapper that    *)
(* turns text into an embedding vector through llama.cpp.                  *)
(*                                                                         *)
(* The wrapper is synchronous and single threaded.  embed_text is modelled *)
(* statement by statement (pc names the next statement) so that the order  *)
(* of its effects is observable.  The llama.cpp backend is external: the   *)
(* tokenizer's result, the return code of llama_encode / llama_decode and  *)
(* whether an embedding pointer is NULL are inputs chosen with \E.         *)
(***************************************************************************)
EXTENDS Integers, Sequences, FiniteSets

\* ------------------------------------------------------------------ bounds
MaxTokens == 3      \* longest token sequence the tokenizer returns
MaxBatch  == 2      \* largest ctx_size given to load_context
MaxEmbd   == 2      \* largest embedding length of a model

\* ---------------------------------------------------- backend value domains
Vocab        == {1, 2}                 \* token ids
TOKEN_NULL   == 0 - 1                  \* llama_vocab_sep of a vocab without SEP
SepIds       == Vocab \cup {TOKEN_NULL}
LLAMA_POOLING_TYPE_NONE == 0
PoolingTypes == {0, 1}                 \* NONE, MEAN
RetCodes     == {0 - 1, 0, 1}          \* error, success, warning
HeapCells    == MaxTokens * MaxEmbd    \* caller buffer followed by the memory behind it

Min(a, b) == IF a < b THEN a ELSE b

RECURSIVE SeqsUpTo(_)
SeqsUpTo(n) == IF n = 0 THEN {<<>>}
               ELSE SeqsUpTo(n - 1) \cup [1..n -> Vocab]
TokenSeqs == SeqsUpTo(MaxTokens)

NullModel == [live |-> FALSE, has_encoder |-> FALSE, has_decoder |-> FALSE,
              n_embd |-> 0, sep |-> 0]
Models    == [live : {TRUE}, has_encoder : BOOLEAN, has_decoder : BOOLEAN,
              n_embd : 1..MaxEmbd, sep : SepIds]
NullCtx   == [live |-> FALSE, n_ctx |-> 0, n_batch |-> 0, n_ubatch |-> 0,
              embeddings |-> FALSE, pooling |-> 0, memory |-> 0]
NoBatch   == [cap |-> 0, token |-> <<>>, pos |-> <<>>, seq_id |-> <<>>, logits |-> <<>>]
NoSize    == <<>>                      \* embed_size not called on the live model yet

VARIABLES
    model,         \* the loaded llama_model (capabilities, n_embd, SEP id)
    ctx,           \* the llama_context (capacities, pooling type, inference memory)
    heap,          \* cells 0..n_embd-1: the caller's output buffer; the rest: memory behind it
    out_tokens,    \* the caller's *out_tokens slot
    size_ret,      \* <<v>>: embed_size returned v for the live model; <<>>: not called
    pc,            \* next statement of embed_text / batch_decode
    inp,           \* embed_text: token sequence
    batch,         \* embed_text: the llama_batch
    n_embd,        \* embed_text: local n_embd (line 137), the stride of the output
    i,             \* batch_decode: loop index
    ret,           \* value embed_text returned
    fwd_rc,        \* value llama_encode / llama_decode returned in this call
    live_batches,  \* batches allocated and not yet freed
    heap0,         \* history: heap at the start of the call
    mem0,          \* history: ctx.memory at the start of the call
    writes,        \* history: cell sets written by common_embd_normalize, in order
    n_clear,       \* history: llama_memory_clear calls in this call
    n_encode,      \* history: llama_encode calls in this call
    n_decode,      \* history: llama_decode calls in this call
    allocs,        \* history: llama_batch_init calls in this call
    frees          \* history: llama_batch_free calls in this call

callerVars == <<heap, out_tokens>>
localVars  == <<inp, batch, n_embd, i, ret, fwd_rc>>
histVars   == <<heap0, mem0, writes, n_clear, n_encode, n_decode, allocs, frees>>
vars == <<model, ctx, heap, out_tokens, size_ret, pc, inp, batch, n_embd, i, ret,
          fwd_rc, live_batches, heap0, mem0, writes, n_clear, n_encode, n_decode,
          allocs, frees>>

ZeroHeap == [c \in 0..(HeapCells - 1) |-> 0]

Init ==
    /\ model = NullModel
    /\ ctx = NullCtx
    /\ heap = ZeroHeap
    /\ out_tokens = 0
    /\ size_ret = NoSize
    /\ pc = "idle"
    /\ inp = <<>>
    /\ batch = NoBatch
    /\ n_embd = 0
    /\ i = 0
    /\ ret = 0
    /\ fwd_rc = 0
    /\ live_batches = 0
    /\ heap0 = ZeroHeap
    /\ mem0 = 0
    /\ writes = <<>>
    /\ n_clear = 0
    /\ n_encode = 0
    /\ n_decode = 0
    /\ allocs = 0
    /\ frees = 0

\* ------------------------------------------------------- handle lifecycle

\* load_model: llama_model_load_from_file yields a model or NULL.
load_model ==
    /\ pc = "idle"
    /\ ~model.live
    /\ \E m \in Models \cup {NullModel} : model' = m
    /\ size_ret' = NoSize
    /\ UNCHANGED <<ctx, callerVars, pc, localVars, live_batches, histVars>>

\* free_model: the caller frees a model only after its context.
free_model ==
    /\ pc = "idle"
    /\ model.live
    /\ ~ctx.live
    /\ model' = NullModel
    /\ size_ret' = NoSize
    /\ UNCHANGED <<ctx, callerVars, pc, localVars, live_batches, histVars>>

\* load_context: n_ctx, n_batch and n_ubatch are all ctx_size.  The pooling
\* type is the backend's choice for the model.  The caller allocates a fresh
\* output buffer for the context.
load_context ==
    /\ pc = "idle"
    /\ model.live
    /\ ~ctx.live
    /\ \E ctx_size \in 1..MaxBatch, embeddings \in BOOLEAN, pt \in PoolingTypes :
          ctx' = [live |-> TRUE, n_ctx |-> ctx_size, n_batch |-> ctx_size,
                  n_ubatch |-> ctx_size, embeddings |-> embeddings,
                  pooling |-> pt, memory |-> 0]
    /\ heap' = ZeroHeap
    /\ UNCHANGED <<model, out_tokens, size_ret, pc, localVars, live_batches, histVars>>

free_context ==
    /\ pc = "idle"
    /\ ctx.live
    /\ ctx' = NullCtx
    /\ UNCHANGED <<model, callerVars, size_ret, pc, localVars, live_batches, histVars>>

\* ------------------------------------------------------------- embed_size

embed_size_or(m) ==
    IF m.has_encoder \/ m.has_decoder THEN 0 - 1 ELSE m.n_embd

embed_size(m) ==
    IF m.has_encoder /\ m.has_decoder THEN 0 - 1 ELSE m.n_embd

embed_size_call ==
    /\ pc = "idle"
    /\ model.live
    /\ size_ret' = <<embed_size(model)>>
    /\ UNCHANGED <<model, ctx, callerVars, pc, localVars, live_batches, histVars>>

\* ------------------------------------------------------------- embed_text

\* Lines 118-123: read the context's attributes and tokenize the text.  The
\* tokenizer is the backend's: its result is any token sequence.
embed_text_tokenize ==
    /\ pc = "idle"
    /\ ctx.live
    /\ \E toks \in TokenSeqs : inp' = toks
    /\ pc' = "L124"
    /\ batch' = NoBatch
    /\ n_embd' = 0
    /\ i' = 0
    /\ ret' = 0
    /\ fwd_rc' = 0
    /\ heap0' = heap
    /\ mem0' = ctx.memory
    /\ writes' = <<>>
    /\ n_clear' = 0
    /\ n_encode' = 0
    /\ n_decode' = 0
    /\ allocs' = 0
    /\ frees' = 0
    /\ UNCHANGED <<model, ctx, callerVars, size_ret, live_batches>>

embed_text_store_tokens_truncated ==
    /\ pc = "L124"
    /\ out_tokens' = Min(Len(inp), ctx.n_batch)
    /\ pc' = "L125"
    /\ UNCHANGED <<model, ctx, heap, size_ret, localVars, live_batches, histVars>>

\* Line 124: *out_tokens = inp.size().  The slot is a uint32_t; a token count
\* is far below 2^32, so the conversion from size_t keeps the value.
embed_text_store_tokens ==
    /\ pc = "L124"
    /\ out_tokens' = Len(inp)
    /\ pc' = "L125"
    /\ UNCHANGED <<model, ctx, heap, size_ret, localVars, live_batches, histVars>>

exceeds_batch_off_by_one(n, cap) == n > cap + 1

\* Line 125: inp.size() > n_batch.
exceeds_batch(n, cap) == n > cap

\* Lines 125-128.
embed_text_check_size ==
    /\ pc = "L125"
    /\ IF exceeds_batch(Len(inp), ctx.n_batch)
          THEN pc' = "ret" /\ ret' = 1
          ELSE pc' = "L130" /\ ret' = ret
    /\ UNCHANGED <<model, ctx, callerVars, size_ret, inp, batch, n_embd, i, fwd_rc,
                   live_batches, histVars>>

missing_sep_first(toks, sep) == toks = <<>> \/ toks[1] # sep

\* Line 130: inp.empty() || inp.back() != llama_vocab_sep(...).
missing_sep(toks, sep) == toks = <<>> \/ toks[Len(toks)] # sep

\* Lines 130-132.
embed_text_check_sep ==
    /\ pc = "L130"
    /\ IF missing_sep(inp, model.sep)
          THEN pc' = "ret" /\ ret' = 2
          ELSE pc' = "L134" /\ ret' = ret
    /\ UNCHANGED <<model, ctx, callerVars, size_ret, inp, batch, n_embd, i, fwd_rc,
                   live_batches, histVars>>

\* Line 134: llama_batch_init(n_batch, 0, 1).
embed_text_batch_init ==
    /\ pc = "L134"
    /\ batch' = [NoBatch EXCEPT !.cap = ctx.n_batch]
    /\ live_batches' = live_batches + 1
    /\ allocs' = allocs + 1
    /\ pc' = "L135"
    /\ UNCHANGED <<model, ctx, callerVars, size_ret, inp, n_embd, i, ret, fwd_rc,
                   heap0, mem0, writes, n_clear, n_encode, n_decode, frees>>

\* Lines 16-20: every token at position k-1 (0-based), sequence id seq, logits true.
batch_add_seq(b, toks, seq) ==
    [b EXCEPT !.token  = toks,
              !.pos    = [k \in 1..Len(toks) |-> k - 1],
              !.seq_id = [k \in 1..Len(toks) |-> <<seq>>],
              !.logits = [k \in 1..Len(toks) |-> TRUE]]

\* Lines 135-137: fill the batch, read the model's embedding length.
embed_text_batch_add ==
    /\ pc = "L135"
    /\ batch' = batch_add_seq(batch, inp, 0)
    /\ n_embd' = model.n_embd
    /\ pc' = "L26"
    /\ UNCHANGED <<model, ctx, callerVars, size_ret, inp, i, ret, fwd_rc,
                   live_batches, histVars>>

\* ----------------------------------------------------------- batch_decode

batch_decode_clear_skipped ==
    /\ pc = "L26"
    /\ pc' = "L28"
    /\ UNCHANGED <<model, ctx, callerVars, size_ret, localVars, live_batches, histVars>>

\* Lines 22-26: llama_memory_clear(llama_get_memory(ctx), true).
batch_decode_clear ==
    /\ pc = "L26"
    /\ ctx' = [ctx EXCEPT !.memory = 0]
    /\ n_clear' = n_clear + 1
    /\ pc' = "L28"
    /\ UNCHANGED <<model, callerVars, size_ret, localVars, live_batches,
                   heap0, mem0, writes, n_encode, n_decode, allocs, frees>>

forward_pass_any_encoder(m) ==
    IF m.has_encoder THEN "encode"
    ELSE IF m.has_decoder THEN "decode"
    ELSE "none"

\* Lines 28 and 32: the pass the capability flags select.
forward_pass(m) ==
    IF m.has_encoder /\ ~m.has_decoder THEN "encode"
    ELSE IF ~m.has_encoder /\ m.has_decoder THEN "decode"
    ELSE "none"

pass_failed_fatal_only(rc) == rc < 0 - 1

\* Lines 29 and 33: llama_encode(...) < 0, llama_decode(...) < 0.
pass_failed(rc) == rc < 0

\* What a pass that returned rc leaves in the context's memory: a pass that
\* succeeded has added the batch's tokens to the cells already occupied.
memory_after(c, b, rc) ==
    IF rc = 0 THEN [c EXCEPT !.memory = Min(c.memory + Len(b.token), c.n_ctx)]
    ELSE c

\* Lines 28-31: encoder-only model.
batch_decode_encode ==
    /\ pc = "L28"
    /\ forward_pass(model) = "encode"
    /\ \E rc \in RetCodes :
          /\ fwd_rc' = rc
          /\ ctx' = memory_after(ctx, batch, rc)
          /\ pc' = IF pass_failed(rc) THEN "L139" ELSE "L38"
    /\ n_encode' = n_encode + 1
    /\ UNCHANGED <<model, callerVars, size_ret, inp, batch, n_embd, i, ret, live_batches,
                   heap0, mem0, writes, n_clear, n_decode, allocs, frees>>

\* Lines 32-35: decoder-only model.
batch_decode_decode ==
    /\ pc = "L28"
    /\ forward_pass(model) = "decode"
    /\ \E rc \in RetCodes :
          /\ fwd_rc' = rc
          /\ ctx' = memory_after(ctx, batch, rc)
          /\ pc' = IF pass_failed(rc) THEN "L139" ELSE "L38"
    /\ n_decode' = n_decode + 1
    /\ UNCHANGED <<model, callerVars, size_ret, inp, batch, n_embd, i, ret, live_batches,
                   heap0, mem0, writes, n_clear, n_encode, allocs, frees>>

\* Lines 28-36 for a model with both capabilities or neither: no pass.
batch_decode_no_pass ==
    /\ pc = "L28"
    /\ forward_pass(model) = "none"
    /\ pc' = "L38"
    /\ UNCHANGED <<model, ctx, callerVars, size_ret, localVars, live_batches, histVars>>

\* Lines 46-54: slot of token k (0-based): its position without pooling, else
\* its sequence id.
embd_pos(pooling, b, k) ==
    IF pooling = LLAMA_POOLING_TYPE_NONE THEN k ELSE b.seq_id[k + 1][1]

embd_cells_one_more(slot, n) == {slot * n + k : k \in 0..n}

\* Lines 56-57: common_embd_normalize writes n floats at output + slot * n.
embd_cells(slot, n) == {slot * n + k : k \in 0..(n - 1)}

\* The caller's buffer: n_seq * n_embd floats with n_seq = 1 (line 138).
buffer_cells == 0..(model.n_embd - 1)

store(h, cells) == [c \in DOMAIN h |-> IF c \in cells THEN 1 ELSE h[c]]

\* Lines 38-58, one iteration whose embedding pointer is not NULL.  A write
\* behind the caller's buffer is undefined behaviour: here it lands in the
\* memory behind the buffer; batch_decode_fault is its other outcome.
batch_decode_extract ==
    /\ pc = "L38"
    /\ i < Len(batch.token)
    /\ IF ~batch.logits[i + 1]
          THEN UNCHANGED <<heap, writes>>
          ELSE LET cells == embd_cells(embd_pos(ctx.pooling, batch, i), n_embd)
               IN  /\ heap' = store(heap, cells)
                   /\ writes' = Append(writes, cells)
    /\ i' = i + 1
    /\ UNCHANGED <<model, ctx, out_tokens, size_ret, pc, inp, batch, n_embd, ret, fwd_rc,
                   live_batches, heap0, mem0, n_clear, n_encode, n_decode, allocs, frees>>

\* Lines 56-57 when the write behind the caller's buffer faults.
batch_decode_fault ==
    /\ pc = "L38"
    /\ i < Len(batch.token)
    /\ batch.logits[i + 1]
    /\ LET cells == embd_cells(embd_pos(ctx.pooling, batch, i), n_embd)
       IN  /\ ~(cells \subseteq buffer_cells)
           /\ writes' = Append(writes, cells)
    /\ pc' = "crashed"
    /\ UNCHANGED <<model, ctx, callerVars, size_ret, localVars, live_batches,
                   heap0, mem0, n_clear, n_encode, n_decode, allocs, frees>>

\* Lines 49 and 53: GGML_ASSERT(embd != NULL) aborts the process.
batch_decode_assert ==
    /\ pc = "L38"
    /\ i < Len(batch.token)
    /\ batch.logits[i + 1]
    /\ pc' = "aborted"
    /\ UNCHANGED <<model, ctx, callerVars, size_ret, localVars, live_batches, histVars>>

\* Lines 38 and 59: the loop ends, batch_decode returns 0.
batch_decode_done ==
    /\ pc = "L38"
    /\ i >= Len(batch.token)
    /\ pc' = "L143"
    /\ UNCHANGED <<model, ctx, callerVars, size_ret, localVars, live_batches, histVars>>

\* ------------------------------------------------- embed_text, return paths

embed_text_failed_leak ==
    /\ pc = "L139"
    /\ ret' = 3
    /\ pc' = "ret"
    /\ UNCHANGED <<model, ctx, callerVars, size_ret, inp, batch, n_embd, i, fwd_rc,
                   live_batches, histVars>>

\* Lines 138-141: batch_decode returned non-zero.
embed_text_failed ==
    /\ pc = "L139"
    /\ batch' = NoBatch
    /\ live_batches' = live_batches - 1
    /\ frees' = frees + 1
    /\ ret' = 3
    /\ pc' = "ret"
    /\ UNCHANGED <<model, ctx, callerVars, size_ret, inp, n_embd, i, fwd_rc,
                   heap0, mem0, writes, n_clear, n_encode, n_decode, allocs>>

\* Lines 143-144.
embed_text_ok ==
    /\ pc = "L143"
    /\ batch' = NoBatch
    /\ live_batches' = live_batches - 1
    /\ frees' = frees + 1
    /\ ret' = 0
    /\ pc' = "ret"
    /\ UNCHANGED <<model, ctx, callerVars, size_ret, inp, n_embd, i, fwd_rc,
                   heap0, mem0, writes, n_clear, n_encode, n_decode, allocs>>

\* The caller has the status; the call's frame is gone.
embed_text_return ==
    /\ pc = "ret"
    /\ pc' = "idle"
    /\ inp' = <<>>
    /\ batch' = NoBatch
    /\ n_embd' = 0
    /\ i' = 0
    /\ fwd_rc' = 0
    /\ heap0' = heap
    /\ mem0' = ctx.memory
    /\ writes' = <<>>
    /\ n_clear' = 0
    /\ n_encode' = 0
    /\ n_decode' = 0
    /\ allocs' = 0
    /\ frees' = 0
    /\ UNCHANGED <<model, ctx, callerVars, size_ret, ret, live_batches>>

Next ==
    \/ load_model
    \/ free_model
    \/ load_context
    \/ free_context
    \/ embed_size_call
    \/ embed_text_tokenize
    \/ embed_text_store_tokens
    \/ embed_text_check_size
    \/ embed_text_check_sep
    \/ embed_text_batch_init
    \/ embed_text_batch_add
    \/ batch_decode_clear
    \/ batch_decode_encode
    \/ batch_decode_decode
    \/ batch_decode_no_pass
    \/ batch_decode_extract
    \/ batch_decode_fault
    \/ batch_decode_assert
    \/ batch_decode_done
    \/ embed_text_failed
    \/ embed_text_ok
    \/ embed_text_return

Spec == Init /\ [][Next]_vars

\* ------------------------------------------------------------ properties

both_caps     == model.has_encoder /\ model.has_decoder
ends_with_sep == inp # <<>> /\ inp[Len(inp)] = model.sep
over_capacity == Len(inp) > ctx.n_batch
stored        == pc \notin {"idle", "L124"}    \* line 124 has run in this call
returned      == pc = "ret"
\* A call the interface supports: an embedding context of an encoder-only or
\* decoder-only model whose forward pass ran and succeeded.
supported_call ==
    /\ model.has_encoder # model.has_decoder
    /\ ctx.embeddings
    /\ n_encode + n_decode = 1 /\ fwd_rc = 0
past_forward  == pc \in {"L38", "L143", "L139", "aborted", "crashed"}
                 \/ (returned /\ ret \in {0, 3})

\* C1: a call whose token sequence is longer than the batch capacity returns
\* 1 with *out_tokens the full token length; it builds no batch, calls neither
\* encode nor decode nor the memory clear, and leaves every cell of the
\* caller's buffer as it was.
C1_TokenLimitExceeded ==
    (stored /\ over_capacity) =>
        /\ pc \in {"L125", "ret"}
        /\ out_tokens = Len(inp)
        /\ returned => ret = 1
        /\ allocs = 0 /\ batch = NoBatch /\ live_batches = 0
        /\ n_encode = 0 /\ n_decode = 0 /\ n_clear = 0
        /\ ctx.memory = mem0
        /\ writes = <<>>
        /\ heap = heap0

\* C1's case: an over-long text returned 1 while the caller's buffer held the
\* embedding of an earlier call.
C1_Witness ==
    /\ returned /\ over_capacity /\ ret = 1
    /\ heap[0] = 1

\* C2 as stated: every call whose token sequence does not end with the
\* separator returns 2.
C2_Original ==
    (returned /\ ~ends_with_sep) => ret = 2

\* C2 as amended: every call whose token sequence fits the batch capacity and
\* does not end with the separator (an empty sequence included) returns 2; a
\* longer one returns 1 whatever its last token is.
C2_MissingSeparator ==
    /\ (returned /\ ~over_capacity /\ ~ends_with_sep) => ret = 2
    /\ (returned /\ over_capacity) => ret = 1
    /\ (returned /\ ret = 2) => (~ends_with_sep /\ allocs = 0 /\ writes = <<>>)

\* C2's case: a non-empty sequence within capacity whose last token is
\* another id than the model's separator returned 2.
C2_Witness ==
    /\ returned /\ ret = 2
    /\ inp # <<>> /\ ~over_capacity
    /\ model.sep \in Vocab

\* C3 as stated: a token sequence within capacity that ends with the separator
\* gives status 0, *out_tokens the token length and a written vector of
\* embedding_dimension(model) components.
C3_Original ==
    (returned /\ ~over_capacity /\ ends_with_sep) =>
        /\ ret = 0
        /\ out_tokens = Len(inp)
        /\ writes # <<>>
        /\ \A k \in 1..Len(writes) :
              Cardinality(writes[k]) = (IF both_caps THEN 0 - 1 ELSE model.n_embd)

\* C3 as amended: for a model that does not have both capabilities, a token
\* sequence within capacity that ends with the separator, and a forward pass
\* that does not report failure, a call that returns gives status 0,
\* *out_tokens the token length, and every written vector has
\* embedding_dimension(model) components, one vector per token.
C3_Success ==
    (returned /\ ~over_capacity /\ ends_with_sep /\ ~both_caps /\ fwd_rc >= 0) =>
        /\ ret = 0
        /\ out_tokens = Len(inp)
        /\ Len(writes) = Len(inp)
        /\ \A k \in 1..Len(writes) : Cardinality(writes[k]) = model.n_embd
        /\ \A k \in 1..Len(writes) : \A c \in writes[k] : c \in DOMAIN heap => heap[c] = 1

\* C3's case: an encoder-only or decoder-only model embedded a text of two or
\* more tokens and returned 0.
C3_Witness ==
    /\ returned /\ ret = 0
    /\ supported_call
    /\ Len(inp) >= 2 /\ Len(writes) = Len(inp)
    /\ model.n_embd >= 2

\* C4: when the encode or decode pass reports failure the call returns 3 and
\* writes no cell of the caller's buffer: the extraction loop is not entered.
C4_InferenceFailure ==
    (pc # "idle" /\ fwd_rc < 0) =>
        /\ pc \in {"L139", "ret"}
        /\ returned => ret = 3
        /\ i = 0
        /\ writes = <<>>
        /\ heap = heap0

\* C4's case: a pass failed, the call returned 3, and the buffer still holds
\* the earlier call's embedding.
C4_Witness ==
    /\ returned /\ ret = 3 /\ fwd_rc < 0
    /\ n_encode + n_decode = 1
    /\ heap[0] = 1

\* C5 as stated: every write of embed_text falls inside the caller's buffer of
\* 1 x n_embd floats, offsets 0 .. n_embd-1, in every pooling mode and for
\* every accepted token count.  Read on the supported calls only, so that the
\* refutation does not rest on what the backend returns without a pass.
C5_Original ==
    supported_call => \A k \in 1..Len(writes) : writes[k] \subseteq buffer_cells

\* C6 as stated: embed_size returns -1 exactly for a model with both
\* capabilities and the embedding length otherwise, and its result always
\* equals the stride n_embd embed_text writes with.
C6_Original ==
    size_ret # NoSize =>
        /\ (size_ret[1] = 0 - 1) <=> both_caps
        /\ ~both_caps => size_ret[1] = model.n_embd
        /\ n_embd # 0 => size_ret[1] = n_embd
        /\ \A k \in 1..Len(writes) : Cardinality(writes[k]) = size_ret[1]

\* C6 as amended: embed_size returns -1 exactly for a model with both
\* capabilities and the embedding length otherwise; for a model without both
\* capabilities its result equals the stride n_embd and the length of every
\* vector embed_text writes; for a model with both, embed_text still uses the
\* model's embedding length as stride while embed_size returns -1.
C6_EmbedSize ==
    size_ret # NoSize =>
        /\ (size_ret[1] = 0 - 1) <=> both_caps
        /\ ~both_caps => size_ret[1] = model.n_embd
        /\ (n_embd # 0 /\ ~both_caps) => size_ret[1] = n_embd
        /\ ~both_caps => \A k \in 1..Len(writes) : Cardinality(writes[k]) = size_ret[1]
        /\ (n_embd # 0 /\ both_caps) => (n_embd = model.n_embd /\ n_embd # size_ret[1])

\* C6's case: embed_size was called on a model without both capabilities and
\* embed_text then wrote a vector for that model.
C6_Witness ==
    /\ size_ret # NoSize
    /\ supported_call
    /\ returned /\ ret = 0 /\ writes # <<>>
    /\ model.n_embd >= 2

\* C7: from line 124 on, and so on every return whatever the status,
\* *out_tokens holds the full token length: it is stored before any check or
\* inference step.
C7_TokenCountAlways ==
    /\ stored => out_tokens = Len(inp)
    /\ pc = "L124" => (allocs = 0 /\ n_clear = 0 /\ n_encode = 0 /\ n_decode = 0)

\* C7's case: a call on a sequence longer than the batch capacity failed and
\* returned with the full token length stored.
C7_Witness ==
    /\ returned /\ ret # 0
    /\ Len(inp) >= 2 /\ over_capacity
    /\ out_tokens = Len(inp)

\* C8 as stated: in every call of embed_text, whatever its outcome, the
\* context's inference state is cleared.
C8_Original ==
    returned => n_clear >= 1

\* C8 as amended: in every call of embed_text that passes validation the
\* context's inference state is cleared exactly once, before any encode or
\* decode pass and before any embedding is extracted, so a pass sees no state
\* of an earlier call; a call that fails validation (status 1 or 2) neither
\* clears nor changes the context's state.
C8_ClearBeforeInference ==
    /\ (n_encode + n_decode > 0 \/ writes # <<>> \/ pc = "L28" \/ past_forward) => n_clear = 1
    /\ pc = "L28" => ctx.memory = 0
    /\ past_forward =>
          ctx.memory = (IF n_encode + n_decode = 1 /\ fwd_rc = 0 THEN Len(inp) ELSE 0)
    /\ (returned /\ ret \in {1, 2}) => (n_clear = 0 /\ ctx.memory = mem0)
    /\ n_clear <= 1

\* C8's case: a call on a context whose memory an earlier call had filled is
\* about to run its pass on cleared memory.
C8_Witness ==
    /\ pc = "L28"
    /\ mem0 > 0
    /\ ctx.memory = 0

\* C9: in a call that passes validation an encoder-only model runs encode once
\* and never decode, a decoder-only model decode once and never encode, and a
\* model with both or neither capability runs no pass, yet its extraction loop
\* runs over every token against the just-cleared state.
C9_PassSelection ==
    /\ past_forward =>
          /\ (model.has_encoder /\ ~model.has_decoder) => (n_encode = 1 /\ n_decode = 0)
          /\ (~model.has_encoder /\ model.has_decoder) => (n_encode = 0 /\ n_decode = 1)
          /\ (model.has_encoder = model.has_decoder) =>
                /\ n_encode = 0 /\ n_decode = 0
                /\ pc # "L139"
                /\ returned => (ret = 0 /\ Len(writes) = Len(inp))
                /\ ctx.memory = 0
    /\ ~past_forward => (n_encode = 0 /\ n_decode = 0)

\* C9's case: a model with both capabilities ran no pass and still extracted
\* a vector for each of two or more tokens.
C9_Witness ==
    /\ returned /\ ret = 0
    /\ both_caps
    /\ n_encode = 0 /\ n_decode = 0
    /\ Len(writes) = Len(inp) /\ Len(inp) >= 2

\* C10: on every return a batch allocated in the call has been freed exactly
\* once (status 0 and 3), on the validation returns (status 1 and 2) none was
\* allocated, and between calls no batch is live.
C10_BatchLifetime ==
    /\ returned =>
          /\ live_batches = 0
          /\ ret \in {0, 3} => (allocs = 1 /\ frees = 1)
          /\ ret \in {1, 2} => (allocs = 0 /\ frees = 0)
    /\ pc = "idle" => live_batches = 0
    /\ frees <= allocs /\ allocs <= 1
    /\ live_batches = allocs - frees

\* C10's case: a call whose pass failed returned 3 with its batch freed.
C10_Witness ==
    /\ returned /\ ret = 3
    /\ allocs = 1 /\ frees = 1 /\ live_batches = 0

====
